---- MODULE Spec2Model ----
(***************************************************************************)
(* A model of https-service.js: the HttpsService.request encoder and the   *)
(* sendRequest response decoder with its errorMessage extractor.           *)
(*                                                                         *)
(* Representation.  A JavaScript value is a record [t, v]: t is its kind   *)
(* ("null", "undefined", "string", "number", "buffer", "object") and v its *)
(* content.  A string is a sequence of symbols; a symbol stands for one    *)
(* character (";", LF, a double quote) or for an indivisible run of        *)
(* characters with no meaning of its own ("application/", "not found").    *)
(* All string operations (indexOf, substring, startsWith, split,           *)
(* concatenation, length) work on symbols.  A Buffer is a sequence of byte *)
(* symbols; every symbol is its own single byte except the character      *)
(* "eacute" (e with an acute accent), which UTF-8 encodes as the two bytes *)
(* "C3" "A9".  An object is a sequence of <<key, value>> pairs in          *)
(* insertion order with distinct keys.                                     *)
(***************************************************************************)
EXTENDS Integers, Sequences, FiniteSets, TLC

VARIABLES
  host,          \* this.host
  port,          \* this.port
  hdrObj,        \* the header mapping object the caller owns and passes by reference
  hdrOrig,       \* that mapping as the caller originally built it (never written)
  pc,            \* per caller: where its current request call stands
  args,          \* per caller: the arguments of its current request call
  options,       \* per caller: the options object handed to https.request
  dataToSend,    \* per caller: the body handed to sendRequest
  thrown,        \* per caller: the exception request() threw synchronously
  transportCalls,\* per caller: how often https.request was called for this call
  response,      \* per caller: the response object (statusCode, statusMessage, headers)
  wire,          \* per caller: body bytes the transport has not delivered yet
  chunks,        \* per caller: the chunks array of the sendRequest closure
  promise,       \* per caller: the promise sendRequest returned
  uncaught       \* per caller: an exception that escaped the 'end' listener

vars == <<host, port, hdrObj, hdrOrig, pc, args, options, dataToSend, thrown,
          transportCalls, response, wire, chunks, promise, uncaught>>

----------------------------------------------------------------------------
(* JavaScript values *)

Null == [t |-> "null", v |-> <<>>]
Undefined == [t |-> "undefined", v |-> <<>>]
Str(s) == [t |-> "string", v |-> s]
Num(n) == [t |-> "number", v |-> n]
Buf(b) == [t |-> "buffer", v |-> b]
Obj(p) == [t |-> "object", v |-> p]
Bool(b) == [t |-> "boolean", v |-> b]

isObject_NotString(x) == x.t # "string"

\* typeof x === 'object' (true of null, of a Buffer and of a plain object)
isObject(x) == x.t \in {"null", "buffer", "object"}

isString(x) == x.t = "string"

\* ToBoolean(x), as used by `if (x)`, `!x`, `a && b`, `a || b`
Truthy(x) ==
  CASE x.t \in {"null", "undefined"} -> FALSE
    [] x.t = "string" -> x.v # <<>>
    [] x.t = "number" -> x.v # 0
    [] x.t = "boolean" -> x.v
    [] OTHER -> TRUE

\* x[key] for a value that is not null or undefined
Prop(x, key) ==
  IF x.t = "object" /\ \E i \in 1..Len(x.v) : x.v[i][1] = key
    THEN x.v[CHOOSE i \in 1..Len(x.v) : x.v[i][1] = key][2]
    ELSE Undefined

\* obj[key] = value on a sequence of pairs: overwrite in place or append
SetProp(pairs, key, value) ==
  IF \E i \in 1..Len(pairs) : pairs[i][1] = key
    THEN [i \in 1..Len(pairs) |->
            IF pairs[i][1] = key THEN <<key, value>> ELSE pairs[i]]
    ELSE Append(pairs, <<key, value>>)

----------------------------------------------------------------------------
(* Strings and buffers *)

\* String.prototype.indexOf for a one-symbol needle, 0-based, -1 when absent
IndexOf(s, sym) ==
  IF \E i \in 1..Len(s) : s[i] = sym
    THEN (CHOOSE i \in 1..Len(s) : s[i] = sym /\ \A j \in 1..(i-1) : s[j] # sym) - 1
    ELSE -1

\* String.prototype.substring(0, n)
Substring0(s, n) == SubSeq(s, 1, n)

StartsWith(s, p) == Len(s) >= Len(p) /\ SubSeq(s, 1, Len(p)) = p

EndsWith(s, p) == Len(s) >= Len(p) /\ SubSeq(s, Len(s) - Len(p) + 1, Len(s)) = p

LowerSym(c) ==
  CASE c = "Content-Type" -> "content-type"
    [] c = "CONTENT-TYPE" -> "content-type"
    [] c = "Content-Length" -> "content-length"
    [] c = "X-Trace" -> "x-trace"
    [] OTHER -> c

UpperSym(c) ==
  CASE c = "get" -> "GET"
    [] c = "head" -> "HEAD"
    [] c = "Head" -> "HEAD"
    [] c = "post" -> "POST"
    [] c = "put" -> "PUT"
    [] c = "patch" -> "PATCH"
    [] c = "delete" -> "DELETE"
    [] OTHER -> c

ToLowerCase(s) == [i \in 1..Len(s) |-> LowerSym(s[i])]

ToUpperCase(s) == [i \in 1..Len(s) |-> UpperSym(s[i])]

\* str.split(/\r?\n/)[0]: the text before the leftmost LF or CR LF
FirstLine(s) ==
  IF \E i \in 1..Len(s) : s[i] = "LF"
    THEN LET i == CHOOSE k \in 1..Len(s) : s[k] = "LF" /\ \A j \in 1..(k-1) : s[j] # "LF"
         IN  IF i > 1 /\ s[i-1] = "CR" THEN SubSeq(s, 1, i-2) ELSE SubSeq(s, 1, i-1)
    ELSE s

RECURSIVE Utf8Decode(_)
\* buffer.toString(): UTF-8 decoding; a malformed byte becomes U+FFFD
Utf8Decode(b) ==
  IF b = <<>> THEN <<>>
  ELSE IF Len(b) >= 2 /\ b[1] = "C3" /\ b[2] = "A9"
    THEN <<"eacute">> \o Utf8Decode(SubSeq(b, 3, Len(b)))
  ELSE IF b[1] \in {"C3", "A9"}
    THEN <<"FFFD">> \o Utf8Decode(Tail(b))
  ELSE <<b[1]>> \o Utf8Decode(Tail(b))

RECURSIVE Utf8Encode(_)
\* the bytes request.write(string) puts on the wire
Utf8Encode(s) ==
  IF s = <<>> THEN <<>>
  ELSE IF s[1] = "eacute" THEN <<"C3", "A9">> \o Utf8Encode(Tail(s))
  ELSE IF s[1] = "FFFD" THEN <<"EF", "BF", "BD">> \o Utf8Encode(Tail(s))
  ELSE <<s[1]>> \o Utf8Encode(Tail(s))

\* Buffer.byteLength(string)
ByteLength(s) == Len(Utf8Encode(s))

RECURSIVE Concat(_)
\* Buffer.concat(list)
Concat(list) == IF list = <<>> THEN <<>> ELSE Head(list) \o Concat(Tail(list))

----------------------------------------------------------------------------
(* JSON.parse and JSON.stringify on the subset: null, non-negative          *)
(* integers, strings (with the escapes \n and \r) and objects.              *)

Q == "\""

DigitVal(c) ==
  CASE c = "0" -> 0 [] c = "1" -> 1 [] c = "2" -> 2 [] c = "3" -> 3 [] c = "4" -> 4
    [] c = "5" -> 5 [] c = "6" -> 6 [] c = "7" -> 7 [] c = "8" -> 8 [] c = "9" -> 9

IsDigit(c) == c \in {"0", "1", "2", "3", "4", "5", "6", "7", "8", "9"}

DigitSym(d) ==
  CASE d = 0 -> "0" [] d = 1 -> "1" [] d = 2 -> "2" [] d = 3 -> "3" [] d = 4 -> "4"
    [] d = 5 -> "5" [] d = 6 -> "6" [] d = 7 -> "7" [] d = 8 -> "8" [] d = 9 -> "9"

ParseOk(val, next) == [ok |-> TRUE, val |-> val, next |-> next, msg |-> <<>>]

ParseFail(msg) == [ok |-> FALSE, val |-> Undefined, next |-> 0, msg |-> msg]

UnexpectedEnd == ParseFail(<<"Unexpected end of JSON input">>)

UnexpectedToken(s, i) ==
  IF i > Len(s) THEN UnexpectedEnd
  ELSE ParseFail(<<"Unexpected token ", s[i], " in JSON at position ", ToString(i - 1)>>)

RECURSIVE ScanString(_, _, _)
\* the characters of a string literal from position i (after the opening quote)
ScanString(s, i, acc) ==
  IF i > Len(s) THEN UnexpectedEnd
  ELSE IF s[i] = Q THEN ParseOk(acc, i + 1)
  ELSE IF s[i] = "\\n" THEN ScanString(s, i + 1, Append(acc, "LF"))
  ELSE IF s[i] = "\\r" THEN ScanString(s, i + 1, Append(acc, "CR"))
  ELSE IF s[i] \in {"LF", "CR"} THEN UnexpectedToken(s, i)
  ELSE ScanString(s, i + 1, Append(acc, s[i]))

RECURSIVE ScanNumber(_, _, _)
ScanNumber(s, i, acc) ==
  IF i <= Len(s) /\ IsDigit(s[i]) /\ ~(acc = 0 /\ s[i-1] = "0")
    THEN ScanNumber(s, i + 1, 10 * acc + DigitVal(s[i]))
    ELSE ParseOk(Num(acc), i)

RECURSIVE ParseValue(_, _)
RECURSIVE ParseMembers(_, _, _, _)

ParseValue(s, i) ==
  IF i > Len(s) THEN UnexpectedEnd
  ELSE IF s[i] = "null" THEN ParseOk(Null, i + 1)
  ELSE IF IsDigit(s[i]) THEN ScanNumber(s, i + 1, DigitVal(s[i]))
  ELSE IF s[i] = Q THEN
    LET r == ScanString(s, i + 1, <<>>)
    IN  IF r.ok THEN ParseOk(Str(r.val), r.next) ELSE r
  ELSE IF s[i] = "{" THEN ParseMembers(s, i + 1, <<>>, TRUE)
  ELSE UnexpectedToken(s, i)

ParseMembers(s, i, acc, first) ==
  IF i > Len(s) THEN UnexpectedEnd
  ELSE IF first /\ s[i] = "}" THEN ParseOk(Obj(acc), i + 1)
  ELSE IF s[i] # Q THEN UnexpectedToken(s, i)
  ELSE
    LET k == ScanString(s, i + 1, <<>>)
    IN  IF ~k.ok THEN k
        ELSE IF k.next > Len(s) \/ s[k.next] # ":" THEN UnexpectedToken(s, k.next)
        ELSE
          LET val == ParseValue(s, k.next + 1)
          IN  IF ~val.ok THEN val
              ELSE IF val.next > Len(s) THEN UnexpectedEnd
              ELSE IF s[val.next] = ","
                THEN ParseMembers(s, val.next + 1, SetProp(acc, k.val, val.val), FALSE)
              ELSE IF s[val.next] = "}"
                THEN ParseOk(Obj(SetProp(acc, k.val, val.val)), val.next + 1)
              ELSE UnexpectedToken(s, val.next)

\* JSON.parse(text): [ok, val] and, when it throws, the SyntaxError's message
JSONparse(s) ==
  LET r == ParseValue(s, 1)
  IN  IF r.ok /\ r.next <= Len(s) THEN UnexpectedToken(s, r.next) ELSE r

RECURSIVE Digits(_)
Digits(n) == IF n < 10 THEN <<DigitSym(n)>> ELSE Append(Digits(n \div 10), DigitSym(n % 10))

RECURSIVE QuoteChars(_)
QuoteChars(s) ==
  IF s = <<>> THEN <<>>
  ELSE (CASE s[1] = "LF" -> <<"\\n">> [] s[1] = "CR" -> <<"\\r">> [] OTHER -> <<s[1]>>)
       \o QuoteChars(Tail(s))

Quote(s) == <<Q>> \o QuoteChars(s) \o <<Q>>

RECURSIVE JSONstringify(_)
RECURSIVE StringifyMembers(_, _)

\* JSON.stringify(value); a member whose value is undefined is left out
JSONstringify(x) ==
  CASE x.t = "null" -> <<"null">>
    [] x.t = "number" -> Digits(x.v)
    [] x.t = "boolean" -> IF x.v THEN <<"true">> ELSE <<"false">>
    [] x.t = "string" -> Quote(x.v)
    [] x.t = "object" -> <<"{">> \o StringifyMembers(x.v, TRUE) \o <<"}">>

StringifyMembers(pairs, first) ==
  IF pairs = <<>> THEN <<>>
  ELSE IF pairs[1][2].t = "undefined" THEN StringifyMembers(Tail(pairs), first)
  ELSE (IF first THEN <<>> ELSE <<",">>)
       \o Quote(pairs[1][1]) \o <<":">> \o JSONstringify(pairs[1][2])
       \o StringifyMembers(Tail(pairs), FALSE)

RECURSIVE QsEscape(_)
\* querystring.escape: percent-encoding of the UTF-8 bytes of reserved characters
QsEscape(s) ==
  IF s = <<>> THEN <<>>
  ELSE (CASE s[1] = "eacute" -> <<"%C3", "%A9">>
          [] s[1] = " " -> <<"%20">>
          [] s[1] = "&" -> <<"%26">>
          [] s[1] = "=" -> <<"%3D">>
          [] OTHER -> <<s[1]>>)
       \o QsEscape(Tail(s))

\* querystring's stringifyPrimitive: strings, numbers and booleans, anything
\* else is ''
QsPrimitive(x) ==
  CASE x.t = "string" -> QsEscape(x.v)
    [] x.t = "number" -> Digits(x.v)
    [] x.t = "boolean" -> IF x.v THEN <<"true">> ELSE <<"false">>
    [] OTHER -> <<>>

RECURSIVE QsPairs(_, _)
QsPairs(pairs, first) ==
  IF pairs = <<>> THEN <<>>
  ELSE (IF first THEN <<>> ELSE <<"&">>)
       \o QsEscape(pairs[1][1]) \o <<"=">> \o QsPrimitive(pairs[1][2])
       \o QsPairs(Tail(pairs), FALSE)

\* querystring.stringify(obj) for a flat object; '' for anything else
QsStringify(x) == IF x.t = "object" THEN QsPairs(x.v, TRUE) ELSE <<>>

----------------------------------------------------------------------------
(* Initialization: the constants of https-service.js *)

JSON_MEDIA_TYPE == <<"application/", "json">>
FORM_MEDIA_TYPE == <<"application/", "x-www-form-urlencoded">>
TEXT_MEDIA_TYPE == <<"text/", "plain">>

CONTENT_TYPE_HEADER == <<"content-type">>
CONTENT_LENGTH_HEADER == <<"content-length">>

NO_CONTENT == 204
BAD_REQUEST == 400
DEFAULT_PORT == 443

----------------------------------------------------------------------------
(* Private functions *)

appendQuery_SkipEmpty(path, query) ==
  IF Truthy(query) THEN
    LET q == IF isObject(query) THEN Str(QsStringify(query)) ELSE query
    IN  IF isString(q) /\ q.v # <<>>
          THEN path \o (IF IndexOf(path, "?") < 0 THEN <<"?">> ELSE <<"&">>) \o q.v
          ELSE path
  ELSE path

appendQuery_AlwaysQuestionMark(path, query) ==
  IF Truthy(query) THEN
    LET q == IF isObject(query) THEN Str(QsStringify(query)) ELSE query
    IN  IF isString(q) THEN path \o <<"?">> \o q.v ELSE path
  ELSE path

\* appendQuery(path, query), lines 34-45
appendQuery(path, query) ==
  IF Truthy(query) THEN
    LET q == IF isObject(query) THEN Str(QsStringify(query)) ELSE query
    IN  IF isString(q)
          THEN path \o (IF IndexOf(path, "?") < 0 THEN <<"?">> ELSE <<"&">>) \o q.v
          ELSE path
  ELSE path

headerValue_CaseSensitive(headers, name) ==
  IF headers = Null THEN Null
  ELSE LET hit == {i \in 1..Len(headers.v) : headers.v[i][1] = name}
       IN  IF hit = {} THEN Null
           ELSE headers.v[CHOOSE i \in hit : \A j \in hit : i <= j][2]

\* headerValue(headers, name): the value of the first key that matches
\* case-insensitively, in the object's insertion order
headerValue(headers, name) ==
  IF headers = Null THEN Null
  ELSE LET n == ToLowerCase(name)
           hit == {i \in 1..Len(headers.v) : ToLowerCase(headers.v[i][1]) = n}
       IN  IF hit = {} THEN Null
           ELSE headers.v[CHOOSE i \in hit : \A j \in hit : i <= j][2]

removeHeader_CaseSensitive(headers, name) ==
  IF headers = Null THEN Null
  ELSE Obj(SelectSeq(headers.v, LAMBDA p : p[1] # name))

\* removeHeader(headers, name): a new object without the matching keys
removeHeader(headers, name) ==
  IF headers = Null THEN Null
  ELSE LET n == ToLowerCase(name)
       IN  Obj(SelectSeq(headers.v, LAMBDA p : ToLowerCase(p[1]) # n))

\* removeParams(value): cut at the first ';' unless it is the first character
removeParams(value) ==
  IF Truthy(value) /\ IndexOf(value.v, ";") > 0
    THEN Str(Substring0(value.v, IndexOf(value.v, ";")))
    ELSE value

\* errorMessage(type, data)
errorMessage(type, data) ==
  IF data # Null THEN
    IF type = Str(JSON_MEDIA_TYPE) /\ isObject(data) THEN
      IF isString(Prop(data, <<"error_description">>))
        THEN Str(FirstLine(Prop(data, <<"error_description">>).v))
      ELSE IF Truthy(Prop(data, <<"error">>))
              /\ isString(Prop(Prop(data, <<"error">>), <<"message">>))
        THEN Prop(Prop(data, <<"error">>), <<"message">>)
      ELSE IF Truthy(Prop(data, <<"odata.error">>))
              /\ isString(Prop(Prop(data, <<"odata.error">>), <<"message">>))
        THEN Prop(Prop(Prop(data, <<"odata.error">>), <<"message">>), <<"value">>)
      ELSE IF isString(Prop(data, <<"message">>))
        THEN Prop(data, <<"message">>)
      ELSE Null
    ELSE IF type = Str(TEXT_MEDIA_TYPE) /\ isString(data) THEN data
    ELSE Null
  ELSE Null

\* new Error(message); code stays undefined until it is assigned
Error(message) == [name |-> "Error", message |-> message, code |-> Undefined]

NoError == [name |-> "none", message |-> <<>>, code |-> Undefined]

\* `${x}` inside a template literal
Template(x) ==
  CASE x.t = "string" -> x.v
    [] x.t = "number" -> Digits(x.v)
    [] x.t = "boolean" -> IF x.v THEN <<"true">> ELSE <<"false">>
    [] x.t = "undefined" -> <<"undefined">>
    [] x.t = "null" -> <<"null">>
    [] OTHER -> <<"[object Object]">>

\* the message of a service failure, lines 150-155
failureMessage(code, statusMessage, message) ==
  IF message = Null
    THEN <<ToString(code), " (">> \o statusMessage \o <<")">>
    ELSE <<ToString(code), " (">> \o statusMessage \o <<")", " ">> \o Template(message)

Settle(state, value) == [state |-> state, value |-> value]

NoValue == [code |-> 0, headers |-> Null, type |-> Null, data |-> Null]

Pending == Settle("pending", NoValue)

\* line 134: the failure for a JSON body of no characters
emptyResponse == Error(<<"Server returned an empty response.">>)

cannotParse_NoMessage(message) == Error(<<"Cannot parse response.">>)

\* line 139: the failure for a JSON body that JSON.parse rejects with e.message
cannotParse(message) == Error(<<"Cannot parse response (">> \o message \o <<").">>)

decodeBody_JsonAsText(type, chunkList) ==
  IF Len(chunkList) > 0
    THEN [kind |-> "data", data |-> Str(Utf8Decode(Concat(chunkList))), error |-> NoError]
    ELSE [kind |-> "data", data |-> Null, error |-> NoError]

\* the decoded body of lines 129-146: [kind |-> "data", data] when decoding
\* finishes, "reject" for a decode failure, "throw" for an exception
decodeBody(type, chunkList) ==
  IF Len(chunkList) > 0 THEN
    LET body == Concat(chunkList)
    IN  IF type = Str(JSON_MEDIA_TYPE) THEN
          LET json == Utf8Decode(body)
          IN  IF json = <<>>
                THEN [kind |-> "reject", data |-> Null, error |-> emptyResponse]
              ELSE IF ~JSONparse(json).ok
                THEN [kind |-> "reject", data |-> Null,
                      error |-> cannotParse(JSONparse(json).msg)]
              ELSE [kind |-> "data", data |-> JSONparse(json).val, error |-> NoError]
        ELSE IF type = Null
          THEN [kind |-> "throw", data |-> Null,
                error |-> [name |-> "TypeError",
                           message |-> <<"Cannot read property 'startsWith' of null">>,
                           code |-> Undefined]]
        ELSE IF StartsWith(type.v, <<"text/">>) \/ EndsWith(type.v, <<"+xml">>)
          THEN [kind |-> "data", data |-> Str(Utf8Decode(body)), error |-> NoError]
        ELSE [kind |-> "data", data |-> Buf(body), error |-> NoError]
  ELSE [kind |-> "data", data |-> Null, error |-> NoError]

\* the 'end' listener of sendRequest, lines 121-159: what it does to the promise
\* ("resolve" or "reject" with a value) or the exception it lets escape ("throw")
onEnd(resp, chunkList) ==
  LET code == resp.statusCode
      headers == resp.headers
      type == removeParams(headerValue(headers, CONTENT_TYPE_HEADER))
      dec == decodeBody(type, chunkList)
  IN  IF code = NO_CONTENT
        THEN [kind |-> "resolve",
              value |-> [code |-> code, headers |-> headers, type |-> type, data |-> Null]]
      ELSE IF dec.kind # "data"
        THEN [kind |-> dec.kind, value |-> dec.error]
      ELSE IF code < BAD_REQUEST
        THEN [kind |-> "resolve",
              value |-> [code |-> code, headers |-> headers, type |-> type,
                         data |-> dec.data]]
      ELSE [kind |-> "reject",
            value |-> [Error(failureMessage(code, resp.statusMessage,
                                            errorMessage(type, dec.data)))
                         EXCEPT !.code = Num(code)]]

----------------------------------------------------------------------------
(* Public: the HttpsService class *)

\* url.parse(uri) on the shapes 'host' and 'scheme://host[:port]'
urlParse(uri) ==
  IF Len(uri) >= 3 /\ uri[2] = "//"
    THEN [protocol |-> Str(<<uri[1]>>), hostname |-> Str(<<uri[3]>>),
          port |-> IF Len(uri) >= 5 /\ uri[4] = ":" THEN Str(<<uri[5]>>) ELSE Null,
          pathname |-> Null]
    ELSE [protocol |-> Null, hostname |-> Null, port |-> Null, pathname |-> Str(uri)]

\* constructor(uri)
constructor(uri) ==
  LET parsed == urlParse(uri)
  IN  IF parsed.protocol # Null /\ parsed.protocol # Str(<<"https:">>)
        THEN [threw |-> TRUE, host |-> Null, port |-> Null]
        ELSE [threw |-> FALSE,
              host |-> IF parsed.protocol = Null THEN parsed.pathname ELSE parsed.hostname,
              port |-> IF Truthy(parsed.port) THEN parsed.port ELSE Num(DEFAULT_PORT)]

\* typeof x, for the values that reach the last branch of request
TypeOf(x) == IF isObject(x) THEN "object" ELSE x.t

NoOptions == [method |-> <<>>, host |-> Null, port |-> Null, path |-> <<>>, headers |-> Null]

Throws(message) ==
  [threw |-> TRUE, error |-> Error(message), options |-> NoOptions, data |-> Null,
   inPlace |-> FALSE]

requiresBody_NoPatch(method) == method \in {<<"POST">>, <<"PUT">>}

\* line 220: the methods that need a body
requiresBody(method) == method \in {<<"POST">>, <<"PUT">>, <<"PATCH">>}

\* request(method, path, headers, data), lines 216-264, up to the call of
\* sendRequest: the exception it throws, or the options and body it passes on.
\* inPlace tells whether options.headers is the object the caller passed in,
\* written in place, rather than a new object.
request(thisHost, thisPort, method0, path, headers0, data) ==
  LET method == ToUpperCase(method0)
      fresh == ~Truthy(headers0)
      headers == IF fresh THEN Obj(<<>>) ELSE headers0
      Sends(h, d, inPlace) ==
        [threw |-> FALSE, error |-> NoError,
         options |-> [method |-> method, host |-> thisHost, port |-> thisPort,
                      path |-> path, headers |-> h],
         data |-> d, inPlace |-> inPlace /\ ~fresh]
      WithLength(h, n) == Obj(SetProp(h.v, CONTENT_LENGTH_HEADER, Num(n)))
  IN  IF data = Null \/ data = Undefined THEN
        IF requiresBody(method)
          THEN Throws(<<"The ">> \o method \o <<" method requires that data be specified.">>)
          ELSE Sends(removeHeader(removeHeader(headers, CONTENT_TYPE_HEADER),
                                  CONTENT_LENGTH_HEADER), Null, FALSE)
      ELSE IF data.t = "buffer" THEN
        IF ~Truthy(headerValue(headers, CONTENT_TYPE_HEADER))
          THEN Throws(<<"The content-type must be specified for binary data.">>)
          ELSE Sends(WithLength(headers, Len(data.v)), data, TRUE)
      ELSE IF isString(data) THEN
        LET h1 == IF ~Truthy(headerValue(headers, CONTENT_TYPE_HEADER))
                    THEN Obj(SetProp(headers.v, CONTENT_TYPE_HEADER, Str(TEXT_MEDIA_TYPE)))
                    ELSE headers
        IN  Sends(WithLength(h1, ByteLength(data.v)), data, TRUE)
      ELSE IF isObject(data) THEN
        LET type == removeParams(headerValue(headers, CONTENT_TYPE_HEADER))
        IN  IF type = Str(JSON_MEDIA_TYPE)
              THEN Sends(WithLength(headers, ByteLength(JSONstringify(data))),
                         Str(JSONstringify(data)), TRUE)
            ELSE IF type = Str(FORM_MEDIA_TYPE)
              THEN Sends(WithLength(headers, ByteLength(QsStringify(data))),
                         Str(QsStringify(data)), TRUE)
            ELSE IF type = Null
              THEN Sends(WithLength(Obj(SetProp(headers.v, CONTENT_TYPE_HEADER,
                                                 Str(JSON_MEDIA_TYPE))),
                                    ByteLength(JSONstringify(data))),
                         Str(JSONstringify(data)), TRUE)
            ELSE Throws(<<"Unsuported content-type (">> \o Template(type)
                        \o <<") - cannot serialize object.">>)
      ELSE Throws(<<"Don't know how to handle data of type ", TypeOf(data), ".">>)

\* get(path, query), lines 190-193
get(thisHost, thisPort, path, query) ==
  request(thisHost, thisPort, <<"GET">>, appendQuery(path, query), Null, Null)

\* head(path, query), lines 195-198
head(thisHost, thisPort, path, query) ==
  request(thisHost, thisPort, <<"HEAD">>, appendQuery(path, query), Null, Null)

\* the default value of a parameter declared as `type = null`
DefaultNull(x) == IF x = Undefined THEN Null ELSE x

\* the object literal { 'content-type': type } of post, put and patch
TypeHeader(type) == Obj(<< <<CONTENT_TYPE_HEADER, DefaultNull(type)>> >>)

\* post(path, data, type = null), lines 200-202
post(thisHost, thisPort, path, data, type) ==
  request(thisHost, thisPort, <<"POST">>, path, TypeHeader(type), data)

\* put(path, data, type = null), lines 204-206
put(thisHost, thisPort, path, data, type) ==
  request(thisHost, thisPort, <<"PUT">>, path, TypeHeader(type), data)

\* patch(path, data, type = null), lines 208-210
patch(thisHost, thisPort, path, data, type) ==
  request(thisHost, thisPort, <<"PATCH">>, path, TypeHeader(type), data)

\* delete(path), lines 212-214
delete(thisHost, thisPort, path) ==
  request(thisHost, thisPort, <<"DELETE">>, path, Null, Null)

\* the bytes request.write(dataToSend) puts on the wire (line 165); nothing
\* is written when dataToSend is null
written(data) ==
  CASE data.t = "buffer" -> data.v
    [] data.t = "string" -> Utf8Encode(data.v)
    [] OTHER -> <<>>

----------------------------------------------------------------------------
(* Bounds and inputs *)

NumCallers == 2
MaxChunks == 2
MaxPiece == 1

Callers == 1..NumCallers

NoResponse == [statusCode |-> 0, statusMessage |-> <<>>, headers |-> Null]

\* the reason phrase the server sends with a status code
ReasonPhrase(code) ==
  CASE code = 200 -> <<"OK">>
    [] code = 204 -> <<"No Content">>
    [] code = 301 -> <<"Moved Permanently">>
    [] code = 400 -> <<"Bad Request">>
    [] code = 404 -> <<"Not Found">>
    [] OTHER -> <<"Internal Server Error">>

Header(name, value) == <<name, value>>

\* the response header objects of the transport (Node lower-cases the names):
\* no content-type, or one of the given values after another header
ResponseHeaders(types) ==
  {Obj(<<Header(<<"server">>, Str(<<"nginx">>))>>)}
    \cup {Obj(<<Header(<<"server">>, Str(<<"nginx">>)), Header(CONTENT_TYPE_HEADER, Str(t))>>) :
            t \in types}

ContentTypes ==
  { JSON_MEDIA_TYPE,
    JSON_MEDIA_TYPE \o <<";", " charset=utf-8">>,
    <<"Application/", "JSON">>,
    TEXT_MEDIA_TYPE,
    <<"text/", "html", ";", " charset=utf-8">>,
    <<"application/", "atom", "+xml">>,
    <<"image/", "png">> }

\* an object literal: the members whose value is not undefined
RECURSIVE Literal(_)
Literal(pairs) ==
  IF pairs = <<>> THEN <<>>
  ELSE IF pairs[1][2] = Undefined THEN Literal(Tail(pairs))
  ELSE <<pairs[1]>> \o Literal(Tail(pairs))

\* error bodies in the shapes errorMessage looks for, each field absent
\* (undefined), of the expected shape, or of another shape
ErrorObjects ==
  { Obj(Literal(<< <<<<"message">>, ms>>, <<<<"odata.error">>, od>>,
                   <<<<"error">>, er>>, <<<<"error_description">>, ed>> >>)) :
      ms \in {Undefined, Str(<<"top">>)},
      od \in {Undefined, Obj(<< <<<<"message">>, Str(<<"odata text">>)>> >>),
              Obj(<< <<<<"message">>, Obj(<< <<<<"lang">>, Str(<<"en">>)>>,
                                             <<<<"value">>, Str(<<"odata value">>)>> >>)>> >>)},
      er \in {Undefined, Obj(<< <<<<"message">>, Str(<<"not found">>)>> >>),
              Str(<<"invalid_grant">>)},
      ed \in {Undefined, Str(<<"AADSTS70002", "CR", "LF", "Trace ID">>), Num(5)} }

BasicBodies ==
  { <<>>,
    <<"h", "C3", "A9">>,
    <<"{", Q, "a", Q, ":", "1", "2", "}">>,
    <<"{", Q, "a", Q, ":">>,
    <<"null">>,
    <<Q, "plain", Q>> }

StatusCodes == {200, 204, 301, 400, 404}

\* what the transport answers: status code, headers, body bytes
BasicResponses ==
  { [statusCode |-> code, headers |-> h, body |-> b] :
      code \in StatusCodes, h \in ResponseHeaders(ContentTypes), b \in BasicBodies }

\* error responses whose body is one of ErrorObjects as JSON text
ErrorResponses ==
  { [statusCode |-> 404, headers |-> h, body |-> Utf8Encode(JSONstringify(o))] :
      h \in ResponseHeaders({JSON_MEDIA_TYPE, TEXT_MEDIA_TYPE}) \ ResponseHeaders({}),
      o \in ErrorObjects }

Responses == BasicResponses \cup ErrorResponses


TransportFaults ==
  { [name |-> "Error", message |-> <<"read ECONNRESET">>, code |-> Str(<<"ECONNRESET">>)],
    [name |-> "Error", message |-> <<"socket hang up">>, code |-> Str(<<"ECONNABORTED">>)] }

Uris == { <<"httpbin.org">>, <<"https:", "//", "example.com", ":", "9000">>,
          <<"http:", "//", "example.com">> }

Paths == { <<"/get">> }

----------------------------------------------------------------------------
(* The state machine *)

NoArgs ==
  [call |-> "none", method |-> <<>>, path |-> <<>>, headers |-> Null, data |-> Null,
   query |-> Undefined]

\* an uncaught exception ends the Node process
Alive == \A c \in Callers : uncaught[c] = NoError

InitWith(uris, headerInputs) ==
  /\ \E uri \in uris :
       /\ ~constructor(uri).threw
       /\ host = constructor(uri).host
       /\ port = constructor(uri).port
  /\ hdrObj \in headerInputs
  /\ hdrOrig = hdrObj
  /\ pc = [c \in Callers |-> "idle"]
  /\ args = [c \in Callers |-> NoArgs]
  /\ options = [c \in Callers |-> NoOptions]
  /\ dataToSend = [c \in Callers |-> Null]
  /\ thrown = [c \in Callers |-> NoError]
  /\ transportCalls = [c \in Callers |-> 0]
  /\ response = [c \in Callers |-> NoResponse]
  /\ wire = [c \in Callers |-> <<>>]
  /\ chunks = [c \in Callers |-> <<>>]
  /\ promise = [c \in Callers |-> Settle("none", NoValue)]
  /\ uncaught = [c \in Callers |-> NoError]

\* a caller calls service.request(method, path, headers, data); headers is null
\* (byRef false) or the caller's mapping object, passed by reference.  Returns after
\* sendRequest has created the promise, called https.request once, written the
\* body and ended the request.
Request(c, methods, refs, payloads) ==
  /\ Alive
  /\ pc[c] = "idle"
  /\ \E method \in methods, path \in Paths, byRef \in refs, data \in payloads :
       LET r == request(host, port, method, path, IF byRef THEN hdrObj ELSE Null, data)
       IN  /\ pc' = [pc EXCEPT ![c] = IF r.threw THEN "threw" ELSE "sent"]
           /\ args' = [args EXCEPT ![c] =
                         [call |-> "request", method |-> method, path |-> path,
                          headers |-> IF byRef THEN hdrObj ELSE Null, data |-> data,
                          query |-> Undefined]]
           /\ thrown' = [thrown EXCEPT ![c] = r.error]
           /\ options' = [options EXCEPT ![c] = r.options]
           /\ dataToSend' = [dataToSend EXCEPT ![c] = r.data]
           /\ transportCalls' = [transportCalls EXCEPT ![c] = IF r.threw THEN 0 ELSE 1]
           /\ promise' = [promise EXCEPT ![c] =
                            IF r.threw THEN Settle("none", NoValue) ELSE Pending]
           /\ hdrObj' = IF ~r.threw /\ r.inPlace THEN r.options.headers ELSE hdrObj
  /\ UNCHANGED <<host, port, hdrOrig, response, wire, chunks, uncaught>>

\* a caller calls one of the convenience methods: callArgs are the method's
\* arguments (with the method and the headers it passes on to request) and r
\* is what its call of request yields.  The header object is the method's own.
Convenience(c, callArgs, r) ==
  /\ Alive
  /\ pc[c] = "idle"
  /\ pc' = [pc EXCEPT ![c] = IF r.threw THEN "threw" ELSE "sent"]
  /\ args' = [args EXCEPT ![c] = callArgs]
  /\ thrown' = [thrown EXCEPT ![c] = r.error]
  /\ options' = [options EXCEPT ![c] = r.options]
  /\ dataToSend' = [dataToSend EXCEPT ![c] = r.data]
  /\ transportCalls' = [transportCalls EXCEPT ![c] = IF r.threw THEN 0 ELSE 1]
  /\ promise' = [promise EXCEPT ![c] =
                   IF r.threw THEN Settle("none", NoValue) ELSE Pending]
  /\ UNCHANGED <<host, port, hdrObj, hdrOrig, response, wire, chunks, uncaught>>

\* service.get(path, query)
Get(c, paths, queries) ==
  \E path \in paths, query \in queries :
    Convenience(c, [call |-> "get", method |-> <<"GET">>, path |-> path, headers |-> Null,
                    data |-> Null, query |-> query],
                get(host, port, path, query))

\* service.head(path, query)
HeadCall(c, paths, queries) ==
  \E path \in paths, query \in queries :
    Convenience(c, [call |-> "head", method |-> <<"HEAD">>, path |-> path, headers |-> Null,
                    data |-> Null, query |-> query],
                head(host, port, path, query))

\* service.post(path, data, type)
Post(c, paths, payloads, types) ==
  \E path \in paths, data \in payloads, type \in types :
    Convenience(c, [call |-> "post", method |-> <<"POST">>, path |-> path,
                    headers |-> TypeHeader(type), data |-> data, query |-> Undefined],
                post(host, port, path, data, type))

\* service.put(path, data, type)
Put(c, paths, payloads, types) ==
  \E path \in paths, data \in payloads, type \in types :
    Convenience(c, [call |-> "put", method |-> <<"PUT">>, path |-> path,
                    headers |-> TypeHeader(type), data |-> data, query |-> Undefined],
                put(host, port, path, data, type))

\* service.patch(path, data, type)
Patch(c, paths, payloads, types) ==
  \E path \in paths, data \in payloads, type \in types :
    Convenience(c, [call |-> "patch", method |-> <<"PATCH">>, path |-> path,
                    headers |-> TypeHeader(type), data |-> data, query |-> Undefined],
                patch(host, port, path, data, type))

\* service.delete(path)
Delete(c, paths) ==
  \E path \in paths :
    Convenience(c, [call |-> "delete", method |-> <<"DELETE">>, path |-> path,
                    headers |-> Null, data |-> Null, query |-> Undefined],
                delete(host, port, path))

\* the transport calls back with the response: status line and headers are
\* known, the body is still to come; the listeners are registered
OnResponse(c, responses) ==
  /\ Alive
  /\ pc[c] = "sent"
  /\ \E r \in responses :
       /\ response' = [response EXCEPT ![c] =
                         [statusCode |-> r.statusCode,
                          statusMessage |-> ReasonPhrase(r.statusCode),
                          headers |-> r.headers]]
       /\ wire' = [wire EXCEPT ![c] = r.body]
  /\ pc' = [pc EXCEPT ![c] = "receiving"]
  /\ UNCHANGED <<host, port, hdrObj, hdrOrig, args, options, dataToSend, thrown,
                 transportCalls, chunks, promise, uncaught>>

\* response.on('data'): the next piece of the body is pushed onto chunks
OnData(c) ==
  /\ Alive
  /\ pc[c] = "receiving"
  /\ Len(chunks[c]) < MaxChunks
  /\ \E k \in (0..MaxPiece) \cup {Len(wire[c])} :
       /\ k <= Len(wire[c])
       /\ chunks' = [chunks EXCEPT ![c] = Append(@, SubSeq(wire[c], 1, k))]
       /\ wire' = [wire EXCEPT ![c] = SubSeq(@, k + 1, Len(@))]
  /\ UNCHANGED <<host, port, hdrObj, hdrOrig, pc, args, options, dataToSend, thrown,
                 transportCalls, response, promise, uncaught>>

\* response.on('end'): the whole body has been delivered
OnEnd(c) ==
  /\ Alive
  /\ pc[c] = "receiving"
  /\ wire[c] = <<>>
  /\ LET r == onEnd(response[c], chunks[c])
     IN  /\ promise' = [promise EXCEPT ![c] =
                          CASE r.kind = "resolve" -> Settle("resolved", r.value)
                            [] r.kind = "reject" -> Settle("rejected", r.value)
                            [] OTHER -> @]
         /\ uncaught' = [uncaught EXCEPT ![c] = IF r.kind = "throw" THEN r.value ELSE @]
  /\ pc' = [pc EXCEPT ![c] = "ended"]
  /\ UNCHANGED <<host, port, hdrObj, hdrOrig, args, options, dataToSend, thrown,
                 transportCalls, response, wire, chunks>>

OnError_Wrapped(c) ==
  /\ Alive
  /\ pc[c] \in {"sent", "receiving"}
  /\ \E err \in TransportFaults :
       promise' = [promise EXCEPT ![c] = Settle("rejected", Error(err.message))]
  /\ pc' = [pc EXCEPT ![c] = "failed"]
  /\ UNCHANGED <<host, port, hdrObj, hdrOrig, args, options, dataToSend, thrown,
                 transportCalls, response, wire, chunks, uncaught>>

\* request.on('error'): a transport fault before the end of the response
OnError(c) ==
  /\ Alive
  /\ pc[c] \in {"sent", "receiving"}
  /\ \E err \in TransportFaults :
       promise' = [promise EXCEPT ![c] = Settle("rejected", err)]
  /\ pc' = [pc EXCEPT ![c] = "failed"]
  /\ UNCHANGED <<host, port, hdrObj, hdrOrig, args, options, dataToSend, thrown,
                 transportCalls, response, wire, chunks, uncaught>>

\* the caller has caught the exception or consumed the outcome of the promise
\* (its then or catch callback has run): the objects of the call are dropped
\* and the caller is free to call again
Consume(c) ==
  /\ Alive
  /\ pc[c] \in {"threw", "ended", "failed"}
  /\ pc' = [pc EXCEPT ![c] = "idle"]
  /\ args' = [args EXCEPT ![c] = NoArgs]
  /\ options' = [options EXCEPT ![c] = NoOptions]
  /\ dataToSend' = [dataToSend EXCEPT ![c] = Null]
  /\ thrown' = [thrown EXCEPT ![c] = NoError]
  /\ transportCalls' = [transportCalls EXCEPT ![c] = 0]
  /\ response' = [response EXCEPT ![c] = NoResponse]
  /\ wire' = [wire EXCEPT ![c] = <<>>]
  /\ chunks' = [chunks EXCEPT ![c] = <<>>]
  /\ promise' = [promise EXCEPT ![c] = Settle("none", NoValue)]
  /\ UNCHANGED <<host, port, hdrObj, hdrOrig, uncaught>>

----------------------------------------------------------------------------
(* Spec: one caller, requests without payload and without headers (as get, *)
(* head and delete issue them), every response of Responses               *)

DecodeMethods == { <<"GET">>, <<"HEAD">>, <<"head">>, <<"POST">> }

DecodePayloads == { Null }

DecodeHeaders == { Obj(<< Header(<<"Content-Type">>, Str(TEXT_MEDIA_TYPE)) >>) }

Init == InitWith({<<"httpbin.org">>}, DecodeHeaders)

Next ==
  \E c \in {1} :
    \/ Request(c, DecodeMethods, {FALSE}, DecodePayloads)
    \/ OnResponse(c, Responses)
    \/ OnData(c)
    \/ OnEnd(c)
    \/ OnError(c)
    \/ Consume(c)

Spec == Init /\ [][Next]_vars

----------------------------------------------------------------------------
(* SpecEnc: one caller, every method, header mapping and payload shape, and *)
(* a few responses                                                          *)

EncodeMethods ==
  { <<"GET">>, <<"head">>, <<"POST">>, <<"post">>, <<"put">>, <<"patch">>, <<"DELETE">> }

EncodePayloads ==
  { Null, Undefined, Buf(<<"h", "i">>), Str(<<"h", "eacute">>),
    Obj(<< <<<<"a">>, Num(1)>>, <<<<"b">>, Str(<<"x", "&", "y">>)>> >>),
    Obj(<< <<<<"a">>, Num(1)>>, <<<<"b">>, Num(2)>>, <<<<"c">>, Num(3)>> >>), Num(1),
    Bool(FALSE) }

EncodeHeaders ==
  { Obj(<<>>),
    Obj(<< Header(<<"content-type">>, Null) >>),
    Obj(<< Header(<<"Content-Type">>, Str(TEXT_MEDIA_TYPE)),
           Header(<<"X-Trace">>, Str(<<"on">>)) >>),
    Obj(<< Header(<<"Content-Length">>, Num(99)),
           Header(<<"content-type">>, Str(JSON_MEDIA_TYPE \o <<";", " charset=utf-8">>)) >>),
    Obj(<< Header(<<"CONTENT-TYPE">>, Str(FORM_MEDIA_TYPE)) >>),
    Obj(<< Header(<<"content-type">>, Str(<<"image/", "png">>)),
           Header(<<"content-length">>, Num(7)) >>) }

EncodeResponses ==
  { [statusCode |-> 200,
     headers |-> Obj(<< Header(CONTENT_TYPE_HEADER, Str(TEXT_MEDIA_TYPE)) >>),
     body |-> <<"o", "k">>],
    [statusCode |-> 204, headers |-> Obj(<<>>), body |-> <<>>] }

InitEnc == InitWith(Uris, EncodeHeaders)

NextEnc ==
  \E c \in {1} :
    \/ Request(c, EncodeMethods, BOOLEAN, EncodePayloads)
    \/ OnResponse(c, EncodeResponses)
    \/ OnData(c)
    \/ OnEnd(c)
    \/ OnError(c)
    \/ Consume(c)

SpecEnc == InitEnc /\ [][NextEnc]_vars

----------------------------------------------------------------------------
(* SpecConv: one caller using the convenience methods get, head, post, put, *)
(* patch and delete against a server that echoes the request body back     *)
(* under the request's content-type                                        *)

QueryPaths == { <<"/get">>, <<"/get", "?", "x=1">> }

\* query arguments: omitted, null, the empty object, an object, a pre-encoded
\* string and the empty string
Queries ==
  { Undefined, Null, Obj(<<>>),
    Obj(<< <<<<"a">>, Num(1)>>, <<<<"b">>, Str(<<"x", "&", "y">>)>> >>),
    Str(<<"q=1">>), Str(<<>>) }

UploadPaths == { <<"/post">> }

\* payloads of post, put and patch: none, a Buffer, a text, and objects that
\* are JSON values (numbers, strings, null, nested objects)
UploadPayloads ==
  { Null, Buf(<<"h", "i">>), Str(<<"h", "eacute">>),
    Obj(<<>>),
    Obj(<< <<<<"a">>, Num(1)>>, <<<<"b">>, Num(2)>>, <<<<"c">>, Num(3)>> >>),
    Obj(<< <<<<"msg">>, Str(<<"h", "eacute", "LF", "i">>)>>,
           <<<<"n">>, Null>>,
           <<<<"o">>, Obj(<< <<<<"k">>, Num(12)>> >>)>> >>) }

\* the type argument of post, put and patch: omitted or a content-type
UploadTypes ==
  { Undefined, Str(JSON_MEDIA_TYPE), Str(JSON_MEDIA_TYPE \o <<";", " charset=utf-8">>),
    Str(FORM_MEDIA_TYPE), Str(TEXT_MEDIA_TYPE) }

\* status codes of a response that carries the echoed body
EchoCodes == {200, 201}

\* the answers of an echoing server to the request of c: the bytes written
\* to the request as body, under the request's content-type header if it has one
EchoResponses(c) ==
  LET type == headerValue(options[c].headers, CONTENT_TYPE_HEADER)
  IN  { [statusCode |-> code,
         headers |-> IF isString(type)
                       THEN Obj(<< Header(<<"server">>, Str(<<"nginx">>)),
                                   Header(CONTENT_TYPE_HEADER, type) >>)
                       ELSE Obj(<< Header(<<"server">>, Str(<<"nginx">>)) >>),
         body |-> written(dataToSend[c])] : code \in EchoCodes }

InitConv == InitWith(Uris, { Obj(<<>>) })

NextConv ==
  \E c \in {1} :
    \/ Get(c, QueryPaths, Queries)
    \/ HeadCall(c, QueryPaths, Queries)
    \/ Post(c, UploadPaths, UploadPayloads, UploadTypes)
    \/ Put(c, UploadPaths, UploadPayloads, UploadTypes)
    \/ Patch(c, UploadPaths, UploadPayloads, UploadTypes)
    \/ Delete(c, UploadPaths)
    \/ OnResponse(c, EchoResponses(c))
    \/ OnData(c)
    \/ OnEnd(c)
    \/ OnError(c)
    \/ Consume(c)

SpecConv == InitConv /\ [][NextConv]_vars

----------------------------------------------------------------------------
(* SpecTwo: every caller issues GET requests on the one instance, so that   *)
(* several requests are in flight at once and their events interleave       *)

\* responses with different bodies: text, a JSON error, and bytes without a
\* content-type
TwoResponses ==
  { [statusCode |-> 200,
     headers |-> Obj(<< Header(CONTENT_TYPE_HEADER, Str(TEXT_MEDIA_TYPE)) >>),
     body |-> <<"o", "k">>],
    [statusCode |-> 404,
     headers |-> Obj(<< Header(CONTENT_TYPE_HEADER, Str(JSON_MEDIA_TYPE)) >>),
     body |-> <<"{", Q, "message", Q, ":", Q, "top", Q, "}">>],
    [statusCode |-> 200,
     headers |-> Obj(<< Header(<<"server">>, Str(<<"nginx">>)) >>),
     body |-> <<"r", "a", "w">>] }

NextTwo ==
  \E c \in Callers :
    \/ Request(c, {<<"GET">>}, {FALSE}, DecodePayloads)
    \/ OnResponse(c, TwoResponses)
    \/ OnData(c)
    \/ OnEnd(c)
    \/ OnError(c)
    \/ Consume(c)

SpecTwo == Init /\ [][NextTwo]_vars

----------------------------------------------------------------------------
(* Properties *)

Ended(c) == pc[c] = "ended"

Resolved(c) == promise[c].state = "resolved"

Rejected(c) == promise[c].state = "rejected"

StatusCode(c) == response[c].statusCode

\* the body the transport delivered: its chunks in arrival order
Received(c) == Concat(chunks[c])

\* the logical content type: the content-type header value up to its first ';'
LogicalType(headers) ==
  LET at == {i \in 1..Len(headers.v) : headers.v[i][1] = <<"content-type">>}
  IN  IF at = {} THEN Null
      ELSE LET val == headers.v[CHOOSE i \in at : TRUE][2].v
               cut == {i \in 1..Len(val) : val[i] = ";"}
           IN  IF cut = {} THEN Str(val)
               ELSE Str(SubSeq(val, 1, (CHOOSE i \in cut : \A j \in cut : i <= j) - 1))

IsJson(c) == LogicalType(response[c].headers) = Str(<<"application/", "json">>)

IsHead(c) == options[c].method = <<"HEAD">>

\* the outcome is a decode failure: an error without a code whose message is
\* the empty-response or the cannot-parse message
DecodeFailure(c) ==
  /\ Ended(c)
  /\ Rejected(c)
  /\ promise[c].value.code = Undefined
  /\ \/ promise[c].value.message = <<"Server returned an empty response.">>
     \/ Head(promise[c].value.message) = "Cannot parse response ("

\* '<statusCode> (<reasonPhrase>)'
StatusLine(c) == <<ToString(StatusCode(c)), " (">> \o response[c].statusMessage \o <<")">>

\* C1: a 204 response resolves with data and type both null, whatever
\* content-type header and chunks the transport delivered.
C1_NoContentHasNullTypeAndData ==
  \A c \in Callers :
    Ended(c) /\ StatusCode(c) = 204 =>
      /\ Resolved(c)
      /\ promise[c].value.data = Null
      /\ promise[c].value.type = Null

\* C2: for a HEAD request the data of the outcome is null whatever chunks
\* arrive, the type is the logical type of the response headers, and the
\* status code alone decides between success and failure.
C2_HeadIgnoresBody ==
  \A c \in Callers :
    Ended(c) /\ IsHead(c) /\ StatusCode(c) # 204 =>
      /\ StatusCode(c) < 400 =>
           /\ Resolved(c)
           /\ promise[c].value.data = Null
           /\ promise[c].value.type = LogicalType(response[c].headers)
      /\ StatusCode(c) >= 400 =>
           /\ Rejected(c)
           /\ promise[c].value.code = Num(StatusCode(c))

\* C3: a non-204, non-HEAD JSON response whose body has zero bytes is rejected
\* with the empty-response failure, also when no chunk arrived at all.
C3_EmptyJsonBodyFails ==
  \A c \in Callers :
    Ended(c) /\ StatusCode(c) # 204 /\ ~IsHead(c) /\ IsJson(c) /\ Received(c) = <<>> =>
      /\ Rejected(c)
      /\ promise[c].value.message = <<"Server returned an empty response.">>

\* the received body is JSON text that JSON.parse rejects
Unparsable(c) == Received(c) # <<>> /\ ~JSONparse(Utf8Decode(Received(c))).ok

\* C4: a non-204, non-HEAD JSON response whose non-empty body cannot be parsed
\* is rejected with the cannot-parse failure carrying the parser's message,
\* for every status code; the error carries no status code.
C4_UnparsableJsonFails ==
  \A c \in Callers :
    Ended(c) /\ StatusCode(c) # 204 /\ ~IsHead(c) /\ IsJson(c) /\ Unparsable(c) =>
      /\ Rejected(c)
      /\ promise[c].value.message =
           <<"Cannot parse response (">> \o JSONparse(Utf8Decode(Received(c))).msg \o <<").">>
      /\ promise[c].value.code = Undefined

C4_Witness ==
  \E c \in Callers :
    /\ Ended(c) /\ StatusCode(c) = 404 /\ ~IsHead(c) /\ IsJson(c) /\ Unparsable(c)
    /\ Len(chunks[c]) = 2
    /\ Rejected(c)
    /\ promise[c].value.message =
         <<"Cannot parse response (", "Unexpected end of JSON input", ").">>

\* C5: a response that is not a decode failure resolves with code, headers,
\* type and data when its status code is below 400 and is rejected with an
\* error whose code is the status code when it is 400 or more.
C5_StatusDecidesOutcome ==
  \A c \in Callers :
    Ended(c) /\ ~DecodeFailure(c) =>
      /\ StatusCode(c) < 400 =>
           /\ Resolved(c)
           /\ promise[c].value.code = StatusCode(c)
           /\ promise[c].value.headers = response[c].headers
           /\ DOMAIN promise[c].value = {"code", "headers", "type", "data"}
      /\ StatusCode(c) >= 400 =>
           /\ Rejected(c)
           /\ promise[c].value.code = Num(StatusCode(c))

\* what the extractor of the code yields for the response of c
Extracted(c) ==
  LET type == removeParams(headerValue(response[c].headers, CONTENT_TYPE_HEADER))
  IN  errorMessage(type, decodeBody(type, chunks[c]).data)

\* C6: the message of the failure of a response with status code 400 or more
\* (a service failure, not a decode failure) is '<code> (<reason>)' when the
\* extractor yields no message and '<code> (<reason>) <message>' when it
\* yields one.
C6_FailureMessageFormat ==
  \A c \in Callers :
    Ended(c) /\ StatusCode(c) >= 400 /\ Rejected(c) /\ ~DecodeFailure(c) =>
      promise[c].value.message =
        IF isString(Extracted(c))
          THEN StatusLine(c) \o <<" ">> \o Extracted(c).v
          ELSE StatusLine(c)

\* the priority order of the extractor: error_description (its first line),
\* error.message, odata.error.message.value, message; null when none is a string
ByPriority(d) ==
  LET description == Prop(d, <<"error_description">>)
      nested == Prop(Prop(d, <<"error">>), <<"message">>)
      odata == Prop(Prop(Prop(d, <<"odata.error">>), <<"message">>), <<"value">>)
      top == Prop(d, <<"message">>)
  IN  IF isString(description) THEN Str(FirstLine(description.v))
      ELSE IF isString(nested) THEN nested
      ELSE IF isString(odata) THEN odata
      ELSE IF isString(top) THEN top
      ELSE Null

\* the response of c is a JSON error whose body parses to an object
JsonErrorObject(c) ==
  /\ Ended(c) /\ StatusCode(c) >= 400 /\ IsJson(c)
  /\ Received(c) # <<>>
  /\ JSONparse(Utf8Decode(Received(c))).ok
  /\ JSONparse(Utf8Decode(Received(c))).val.t = "object"

ParsedBody(c) == JSONparse(Utf8Decode(Received(c))).val

\* C7: for a parsed JSON error body the message of the failure is the field
\* of highest priority, and none when no shape is present.
C7_ExtractorPriority ==
  \A c \in Callers :
    JsonErrorObject(c) =>
      /\ Rejected(c)
      /\ promise[c].value.message =
           IF ByPriority(ParsedBody(c)) = Null
             THEN StatusLine(c)
             ELSE StatusLine(c) \o <<" ">> \o ByPriority(ParsedBody(c)).v

\* C8: a parsed JSON error body without a string error_description and without
\* a string error.message but with a string at odata.error.message.value yields
\* that string as the message.
C8_ODataMessageValue ==
  \A c \in Callers :
    /\ JsonErrorObject(c)
    /\ ~isString(Prop(ParsedBody(c), <<"error_description">>))
    /\ ~isString(Prop(Prop(ParsedBody(c), <<"error">>), <<"message">>))
    /\ isString(Prop(Prop(Prop(ParsedBody(c), <<"odata.error">>), <<"message">>), <<"value">>))
    => /\ Rejected(c)
       /\ promise[c].value.message =
            StatusLine(c) \o <<" ">>
              \o Prop(Prop(Prop(ParsedBody(c), <<"odata.error">>), <<"message">>), <<"value">>).v

\* the data the specification gives a body of the logical type of c
DataByType(c) ==
  LET type == LogicalType(response[c].headers)
  IN  IF type = Str(<<"application/", "json">>) THEN ParsedBody(c)
      ELSE IF type # Null /\ type.v # <<>>
              /\ (Head(type.v) = "text/" \/ type.v[Len(type.v)] = "+xml")
        THEN Str(Utf8Decode(Received(c)))
      ELSE Buf(Received(c))

\* C9: a successful non-204, non-HEAD response with a body resolves with the
\* parsed value for JSON, the decoded string for text/* and *+xml, and the
\* raw bytes for every other type.
C9_DataFollowsType ==
  \A c \in Callers :
    /\ Ended(c) /\ StatusCode(c) # 204 /\ StatusCode(c) < 400 /\ ~IsHead(c)
    /\ Received(c) # <<>>
    /\ ~DecodeFailure(c)
    => /\ Resolved(c)
       /\ promise[c].value.data = DataByType(c)

BodyMethodSpellings ==
  { <<"POST">>, <<"post">>, <<"PUT">>, <<"put">>, <<"PATCH">>, <<"patch">> }

\* C10: a call with method POST, PUT or PATCH (in any letter case) and an
\* absent payload throws the data-required error, whatever headers it was
\* given, and the transport is not called.
C10_BodyRequired ==
  \A c \in Callers :
    /\ pc[c] # "idle"
    /\ args[c].method \in BodyMethodSpellings
    /\ args[c].data \in {Null, Undefined}
    => /\ pc[c] = "threw"
       /\ thrown[c].name = "Error"
       /\ thrown[c].message[Len(thrown[c].message)] = " method requires that data be specified."
       /\ transportCalls[c] = 0
       /\ promise[c].state = "none"

C10_Witness ==
  \E c \in Callers :
    /\ pc[c] = "threw"
    /\ args[c].method = <<"patch">>
    /\ args[c].data = Undefined
    /\ headerValue(args[c].headers, CONTENT_TYPE_HEADER) = Str(TEXT_MEDIA_TYPE)
    /\ thrown[c].message = <<"The ", "PATCH", " method requires that data be specified.">>
    /\ transportCalls[c] = 0

\* the entries of a header mapping whose name is the given lower-case name
\* under some letter case
Entries(headers, name) ==
  IF headers.t # "object" THEN <<>>
  ELSE SelectSeq(headers.v, LAMBDA p : ToLowerCase(p[1]) = name)

\* the mapping gives the header a value (a header whose value is null or
\* undefined is a header the caller did not set)
Supplied(headers, name) ==
  \E i \in 1..Len(Entries(headers, name)) :
    Entries(headers, name)[i][2].t \in {"string", "number"}

\* the call of c has returned or thrown
Called(c) == pc[c] # "idle"

\* the call of c handed a request to the transport
Sent(c) == Called(c) /\ pc[c] # "threw"

\* C11: a call with a raw-bytes payload throws the content-type-required error
\* when the headers supply no content-type under any letter case; when they
\* supply one, the body handed to the transport is the payload, byte for byte.
C11_BufferNeedsContentType ==
  \A c \in Callers :
    Called(c) /\ args[c].data.t = "buffer" =>
      IF Supplied(args[c].headers, <<"content-type">>)
        THEN /\ Sent(c)
             /\ transportCalls[c] = 1
             /\ dataToSend[c] = args[c].data
        ELSE /\ pc[c] = "threw"
             /\ thrown[c].name = "Error"
             /\ thrown[c].message = <<"The content-type must be specified for binary data.">>
             /\ transportCalls[c] = 0

C11_Witness ==
  \E c \in Callers :
    /\ pc[c] = "sent"
    /\ args[c].data = Buf(<<"h", "i">>)
    /\ Entries(args[c].headers, <<"content-type">>) =
         << Header(<<"CONTENT-TYPE">>, Str(FORM_MEDIA_TYPE)) >>
    /\ dataToSend[c] = Buf(<<"h", "i">>)

\* the values the header set handed to the transport holds for a header name,
\* under every letter case of the name, in the order of the entries
Encoded(c, name) ==
  [i \in 1..Len(Entries(options[c].headers, name)) |->
     Entries(options[c].headers, name)[i][2]]

\* the values the caller's mapping held for a header name when the call was made
Given(c, name) ==
  [i \in 1..Len(Entries(args[c].headers, name)) |-> Entries(args[c].headers, name)[i][2]]

\* the number of bytes of the body handed to the transport
BodyBytes(c) ==
  IF dataToSend[c].t = "buffer" THEN Len(dataToSend[c].v) ELSE Len(Utf8Encode(dataToSend[c].v))

\* C12: a call with a text payload is sent with the text as body, with
\* content-type text/plain when the caller supplied none and the caller's value
\* otherwise, and with a single content-length, under every letter case of the
\* name, that is the UTF-8 byte length of the text.
C12_TextLengthOverwritten ==
  \A c \in Callers :
    Called(c) /\ args[c].data.t = "string" =>
      /\ Sent(c)
      /\ dataToSend[c] = args[c].data
      /\ Encoded(c, <<"content-type">>) =
           IF Supplied(args[c].headers, <<"content-type">>)
             THEN Given(c, <<"content-type">>)
             ELSE << Str(<<"text/", "plain">>) >>
      /\ Encoded(c, <<"content-length">>) = << Num(BodyBytes(c)) >>

\* the content-type the caller gave, up to its first ';': null when none
RequestType(c) ==
  IF ~Supplied(args[c].headers, <<"content-type">>) THEN Null
  ELSE LET val == Given(c, <<"content-type">>)[1].v
           cut == {i \in 1..Len(val) : val[i] = ";"}
       IN  IF cut = {} THEN Str(val)
           ELSE Str(SubSeq(val, 1, (CHOOSE i \in cut : \A j \in cut : i <= j) - 1))

\* C13: a call with an object payload sends its JSON text when the content-type
\* without parameters is application/json or absent (and then sets content-type
\* to application/json), sends its form encoding when it is
\* application/x-www-form-urlencoded, and throws for every other value; when
\* it sends, content-length is the byte length of the body.  {a:1,b:2,c:3}
\* without headers is sent as {"a":1,"b":2,"c":3}.
C13_ObjectSerializedByType ==
  \A c \in Callers :
    Called(c) /\ args[c].data.t = "object" =>
      /\ RequestType(c) \in {Null, Str(<<"application/", "json">>)} =>
           /\ Sent(c)
           /\ dataToSend[c] = Str(JSONstringify(args[c].data))
           /\ args[c].data = Obj(<< <<<<"a">>, Num(1)>>, <<<<"b">>, Num(2)>>, <<<<"c">>, Num(3)>> >>)
                => dataToSend[c].v = <<"{", Q, "a", Q, ":", "1", ",", Q, "b", Q, ":", "2", ",",
                                       Q, "c", Q, ":", "3", "}">>
           /\ Encoded(c, <<"content-type">>) =
                IF RequestType(c) = Null THEN << Str(<<"application/", "json">>) >>
                ELSE Given(c, <<"content-type">>)
      /\ RequestType(c) = Str(<<"application/", "x-www-form-urlencoded">>) =>
           /\ Sent(c)
           /\ dataToSend[c] = Str(QsStringify(args[c].data))
           /\ Encoded(c, <<"content-type">>) = Given(c, <<"content-type">>)
      /\ RequestType(c) \notin {Null, Str(<<"application/", "json">>),
                                 Str(<<"application/", "x-www-form-urlencoded">>)} =>
           /\ pc[c] = "threw"
           /\ thrown[c].name = "Error"
           /\ Head(thrown[c].message) = "Unsuported content-type ("
           /\ transportCalls[c] = 0
      /\ Sent(c) => Encoded(c, <<"content-length">>) = << Num(BodyBytes(c)) >>

\* C14: a call whose payload is a number or a boolean throws the
\* unknown-data-type error whatever the method and the headers, also when they
\* supply a content-type, and the transport is not called.
C14_OtherPayloadRejected ==
  \A c \in Callers :
    Called(c) /\ args[c].data.t \in {"number", "boolean"} =>
      /\ pc[c] = "threw"
      /\ thrown[c].name = "Error"
      /\ thrown[c].message =
           <<"Don't know how to handle data of type ", args[c].data.t, ".">>
      /\ transportCalls[c] = 0
      /\ promise[c].state = "none"

C14_Witness ==
  \E c \in Callers :
    /\ pc[c] = "threw"
    /\ args[c].method = <<"POST">>
    /\ args[c].data = Num(1)
    /\ Given(c, <<"content-type">>) = << Str(<<"text/", "plain">>) >>
    /\ thrown[c].message = <<"Don't know how to handle data of type ", "number", ".">>

\* the entries of a header mapping other than content-type and content-length
Others(headers) ==
  IF headers.t # "object" THEN <<>>
  ELSE SelectSeq(headers.v,
                 LAMBDA p : ToLowerCase(p[1]) \notin {<<"content-type">>, <<"content-length">>})

\* C15: a request without payload that is handed to the transport carries no
\* content-type and no content-length header under any letter case, and
\* carries every other header of the caller unchanged.
C15_AbsentPayloadStripsHeaders ==
  \A c \in Callers :
    Sent(c) /\ args[c].data \in {Null, Undefined} =>
      /\ dataToSend[c] = Null
      /\ Encoded(c, <<"content-type">>) = <<>>
      /\ Encoded(c, <<"content-length">>) = <<>>
      /\ options[c].headers = Obj(Others(args[c].headers))

C15_Witness ==
  \E c \in Callers :
    /\ pc[c] = "sent"
    /\ args[c].method = <<"DELETE">>
    /\ args[c].data = Undefined
    /\ args[c].headers = Obj(<< Header(<<"Content-Type">>, Str(<<"text/", "plain">>)),
                                Header(<<"X-Trace">>, Str(<<"on">>)) >>)
    /\ options[c].headers = Obj(<< Header(<<"X-Trace">>, Str(<<"on">>)) >>)

\* c called get or head
QueryCall(c) == Called(c) /\ args[c].call \in {"get", "head"}

\* the original statement of C16: get or head with path '/get' and query {}
\* hands the path '/get' to the transport.
C16_EmptyQueryKeepsPath ==
  \A c \in Callers :
    QueryCall(c) /\ args[c].path = <<"/get">> /\ args[c].query = Obj(<<>>) =>
      /\ Sent(c)
      /\ options[c].path = <<"/get">>

\* C16 (amended): get or head with path '/get' and query {} hands the path
\* '/get?' to the transport: the separator is appended, followed by nothing.
C16_EmptyQueryAppendsSeparator ==
  \A c \in Callers :
    QueryCall(c) /\ args[c].path = <<"/get">> /\ args[c].query = Obj(<<>>) =>
      /\ Sent(c)
      /\ options[c].path = <<"/get", "?">>

C16_Witness ==
  \E c \in Callers :
    /\ pc[c] = "sent"
    /\ args[c].call = "head"
    /\ args[c].path = <<"/get">>
    /\ args[c].query = Obj(<<>>)
    /\ options[c].method = <<"HEAD">>
    /\ options[c].path = <<"/get", "?">>

\* a query value is present: an object or a non-empty pre-encoded string
QueryPresent(q) == q.t = "object" \/ (q.t = "string" /\ q.v # <<>>)

\* the form encoding of the members of an object: name=value joined by '&'
RECURSIVE FormOf(_)
FormOf(pairs) ==
  IF pairs = <<>> THEN <<>>
  ELSE QsEscape(pairs[1][1]) \o <<"=">>
       \o (IF pairs[1][2].t = "string" THEN QsEscape(pairs[1][2].v)
           ELSE Digits(pairs[1][2].v))
       \o (IF Len(pairs) > 1 THEN <<"&">> \o FormOf(Tail(pairs)) ELSE <<>>)

\* the serialized query: the form encoding of an object, a string as it is
Serialized(q) == IF q.t = "object" THEN FormOf(q.v) ELSE q.v

\* C17: get and head hand to the transport the path followed by '?' (when the
\* path holds no '?') or '&' (when it holds one) and the serialized query when
\* a query value is present, also when it serializes to the empty string, and
\* the path unchanged when there is none.
C17_QueryAppended ==
  \A c \in Callers :
    QueryCall(c) =>
      /\ Sent(c)
      /\ options[c].path =
           IF QueryPresent(args[c].query)
             THEN args[c].path
                    \o (IF \E i \in 1..Len(args[c].path) : args[c].path[i] = "?"
                          THEN <<"&">> ELSE <<"?">>)
                    \o Serialized(args[c].query)
             ELSE args[c].path

C17_Witness ==
  \E c \in Callers :
    /\ pc[c] = "sent"
    /\ args[c].call = "get"
    /\ args[c].path = <<"/get", "?", "x=1">>
    /\ args[c].query = Obj(<< <<<<"a">>, Num(1)>>, <<<<"b">>, Str(<<"x", "&", "y">>)>> >>)
    /\ options[c].path =
         <<"/get", "?", "x=1", "&", "a", "=", "1", "&", "b", "=", "x", "%26", "y">>

\* the bytes of the body handed to the transport
SentBytes(c) ==
  IF dataToSend[c].t = "buffer" THEN dataToSend[c].v ELSE Utf8Encode(dataToSend[c].v)

\* the response of c echoes its request: the body bytes are the bytes sent
\* and the content-type header is the one of the request
Echoed(c) ==
  /\ Received(c) = SentBytes(c)
  /\ Encoded(c, <<"content-type">>) # <<>>
  /\ \E i \in 1..Len(response[c].headers.v) :
       response[c].headers.v[i] = <<<<"content-type">>, Encoded(c, <<"content-type">>)[1]>>

\* C18: an object payload sent as application/json (given with or without
\* parameters, or by default) and echoed back with a status code below 400
\* resolves with data equal to the payload.
C18_JsonRoundTrip ==
  \A c \in Callers :
    /\ Ended(c)
    /\ args[c].data.t = "object"
    /\ RequestType(c) \in {Null, Str(<<"application/", "json">>)}
    /\ Echoed(c)
    /\ StatusCode(c) < 400
    => /\ Resolved(c)
       /\ promise[c].value.data = args[c].data

C18_Witness ==
  \E c \in Callers :
    /\ Ended(c)
    /\ args[c].call = "put"
    /\ args[c].data = Obj(<< <<<<"msg">>, Str(<<"h", "eacute", "LF", "i">>)>>,
                             <<<<"n">>, Null>>,
                             <<<<"o">>, Obj(<< <<<<"k">>, Num(12)>> >>)>> >>)
    /\ Given(c, <<"content-type">>) = << Str(<<"application/", "json", ";", " charset=utf-8">>) >>
    /\ Echoed(c)
    /\ Len(chunks[c]) = 2 /\ Len(chunks[c][1]) = 1
    /\ StatusCode(c) = 201
    /\ Resolved(c)
    /\ promise[c].value.data = args[c].data

\* the response of c is a JSON response whose body is empty or cannot be parsed
MalformedJson(c) ==
  /\ Ended(c) /\ StatusCode(c) # 204 /\ ~IsHead(c) /\ IsJson(c)
  /\ Received(c) = <<>> \/ Unparsable(c)

\* C19: the failure delivered for an empty or unparsable JSON body carries a
\* status code: the status code of the response when that is 400 or more, and
\* a number in every case.
C19_DecodeFailureHasCode ==
  \A c \in Callers :
    MalformedJson(c) /\ Rejected(c) =>
      /\ promise[c].value.code.t = "number"
      /\ StatusCode(c) >= 400 => promise[c].value.code = Num(StatusCode(c))

\* C20: once the end of the response has been delivered the request has an
\* outcome, a success or a failure, for every status code, header set and
\* sequence of chunks.  (The 'end' listener settles the promise in the same
\* step in which it runs, or never.)
C20_OutcomeAfterEnd ==
  \A c \in Callers :
    Ended(c) => Resolved(c) \/ Rejected(c)

\* the transport reported a fault for the request of c before the end of its
\* response
Faulted(c) == pc[c] = "failed"

\* the request of c is in flight: handed to the transport, no end and no
\* fault yet
InFlight(c) == pc[c] \in {"sent", "receiving"}

\* C21: while a request is in flight its chunks are only collected and it has
\* no outcome yet; when the transport reports a fault before the end, the
\* outcome is the failure with that fault as the transport made it, whatever
\* chunks had arrived, and the transport has been called once.
C21_FaultPassedOn ==
  \A c \in Callers :
    /\ InFlight(c) =>
         /\ promise[c] = Pending
         /\ transportCalls[c] = 1
    /\ Faulted(c) =>
         /\ Rejected(c)
         /\ promise[c].value \in TransportFaults
         /\ transportCalls[c] = 1
         /\ uncaught[c] = NoError

C21_Witness ==
  \E c \in Callers :
    /\ Faulted(c)
    /\ StatusCode(c) = 200
    /\ IsJson(c)
    /\ chunks[c] = << <<"{">> >>
    /\ wire[c] # <<>>
    /\ Rejected(c)
    /\ promise[c].value.code = Str(<<"ECONNABORTED">>)

\* what request hands to the transport for the arguments of c when the
\* header mapping is a fresh copy of the mapping as the caller built it
WithFreshCopy(c) ==
  request(host, port, args[c].method, args[c].path, hdrOrig, args[c].data)

\* C22: a request call leaves the caller's header mapping as the caller built
\* it, and a call that is given the mapping throws, or encodes its headers and
\* body, as it would with a fresh copy of the original mapping.
C22_HeaderMappingUnchanged ==
  /\ hdrObj = hdrOrig
  /\ \A c \in Callers :
       Called(c) /\ args[c].call = "request" /\ args[c].headers # Null =>
         /\ (pc[c] = "threw") = WithFreshCopy(c).threw
         /\ Sent(c) =>
              /\ options[c].headers = WithFreshCopy(c).options.headers
              /\ dataToSend[c] = WithFreshCopy(c).data

\* the body of the response the transport is delivering to c
OwnBody(c) ==
  (CHOOSE r \in TwoResponses :
     r.statusCode = StatusCode(c) /\ r.headers = response[c].headers).body

\* the outcome the request of c has when it is the only request: what the
\* 'end' listener makes of its own response and its own chunks
Alone(c) ==
  LET r == onEnd(response[c], chunks[c])
  IN  CASE r.kind = "resolve" -> Settle("resolved", r.value)
        [] r.kind = "reject" -> Settle("rejected", r.value)
        [] OTHER -> Pending

\* C23: with several requests in flight on one instance, under every
\* interleaving of their events, the chunks of a request and what is still to
\* come are the body of its own response, its outcome at end is the one it has
\* alone, no request in flight is cut off by what happens to another request,
\* and host and port stay as constructed.
C23_NoInterference ==
  /\ host = Str(<<"httpbin.org">>)
  /\ port = Num(443)
  /\ \A c \in Callers :
       /\ pc[c] \in {"receiving", "ended"} => Received(c) \o wire[c] = OwnBody(c)
       /\ Ended(c) => promise[c] = Alone(c)
       /\ InFlight(c) => \A d \in Callers \ {c} : uncaught[d] = NoError

====
